---- MODULE Spec2Model ----
(***************************************************************************)
(* Provider runtime of zebar (packages/desktop): the provider manager      *)
(* behind the listen_provider / unlisten_provider commands, the select     *)
(* loops of the Disk, Ip and Weather providers, the interval loop of       *)
(* impl_interval_provider with the channel it sends on, the Cpu and        *)
(* Memory providers on the System snapshot they share, and the status      *)
(* mapping of the Weather provider.                                        *)
(*                                                                         *)
(* Time is discrete and kept relative (time until the next tick, time left *)
(* of a refresh).  A loop that has something ready at its select point     *)
(* acts before time advances; only a refresh (run_interval) takes time.    *)
(***************************************************************************)
EXTENDS Integers, Sequences, FiniteSets, TLC

\* ---- bounds -------------------------------------------------------------
\* Loop instances the manager ever spawns.
MaxLoops == 2
\* Longest duration of one run_interval, in time units.
MaxRefresh == 2
\* refresh_interval of every provider, in time units.
Period == 2
\* Cap of the counter of Cpu outputs.
MaxCount == 2
\* Longest duration of one run_interval of the run_async loop.
MaxRun == 4
\* Capacity of the channel behind emit_result_tx.
ChanCap == 2
\* Largest weather code of a response.
MaxCode == 100
\* longest location string of an IPinfo response (besides the two of the
\* scenario)
MaxLoc == 4
\* messages sent to the input channel of one loop
MaxInput == 2
\* placements of one window config
MaxPlacements == 2
\* windows the factory counts; window_count, an AtomicU32, wraps at 2^32
MaxWindows == 3
\* longest config path of a widget config in the tray menu
MaxPath == 3

\* ---- configuration ------------------------------------------------------
Fingerprints == {"disk", "ip"}
Subscribers == {"w1", "w2"}
Outputs == {"o1", "o2"}
NoOutput == "none"
LoopIds == 1..MaxLoops
\* Values of the memory fields of the System snapshot.
MemValues == {"m0", "m1"}
\* Sequence numbers of the results sent on emit_result_tx wrap here.
SeqMod == ChanCap + 1

\* DiskProvider::runtime_type / IpProvider::runtime_type
runtime_type(f) == IF f = "disk" THEN "Sync" ELSE "Async"

VARIABLES
  \* ProviderManager (registry of handles, keyed by config hash)
  registry,     \* fingerprint -> loop id of its handle, 0 when absent
  subs,         \* fingerprint -> subscriber set of its handle
  mgr,          \* 0: registry free; i: a destroy awaits the end of loop i
  ret,          \* the create / destroy call that returned in this step
  \* loop instances (start_sync / start_async)
  nLoops,       \* loops spawned so far
  lfp,          \* loop -> fingerprint it serves
  lpc,          \* loop -> "none" | "select" | "refresh" | "stopped"
  input,        \* loop -> messages in its input channel
  timer,        \* loop -> time until the next tick; <= 0: a tick is due,
                \*         and -timer is its lateness modulo the period
  busy,         \* loop -> time left of its in-flight run_interval
  emission,     \* the emission made in this step: its loop, its payload,
                \* the subscribers it goes to, those the delivery fails
                \* for and those that get it
  done,         \* the run_interval that returned in this step: its loop
                \* and its result
  sinceStop,    \* time since the pending Stop was sent, up to Period + 1
  \* impl_interval_provider::run_async (one loop, started at time 0)
  allow,              \* $allow_identical_emits of the provider kind
  rpc,                \* "off" | "tick" (awaits interval.tick) | "run"
  rTimer,             \* time until the next tick; <= 0: a tick is due,
                      \*   and -rTimer is the time since its deadline
  rLate,              \* how late the tick of the in-flight run_interval
                      \* was taken
  rBusy,              \* time left of the in-flight run_interval
  rDur,               \* duration of the in-flight run_interval
  last_interval_res,  \* the local of that name
  sent,               \* the latest value sent on emit_result_tx, with
                      \* its sequence number (modulo SeqMod)
  chan,               \* the channel behind emit_result_tx: the sequence
                      \* numbers of the values in it
  seen,               \* sequence number of the latest value received
  prevRes,            \* result of the latest run_interval
  suppressed,         \* whether the latest result was not sent
  \* CpuProvider::on_start (one loop, started at time 0)
  cpc,                \* "off" | "start" | "lock" (awaits sysinfo.lock)
                      \* | "send" (awaits emit_output_tx.send) | "tick"
                      \* | "aborted"
  cTimer,             \* time until the next tick of its interval
  cpuEmits,           \* outputs it has sent, up to MaxCount
  cChan,              \* outputs in the channel behind emit_output_tx
  age,                \* time since both loops started, up to Period
  \* the System snapshot shared by CpuProvider and MemoryProvider
  sysLock,            \* holder of the Mutex: "none" | "cpu" | "mem"
  sysMem,             \* the memory fields stored in the snapshot
  mpc,                \* MemoryProvider: "off" | "idle" (its refresh
                      \* awaits the lock) | "held" (has the lock)
  memRead,            \* the memory fields MemoryProvider read last
  \* WeatherProvider::run_interval: the current weather and its status
  wCode,              \* current_weather.weather_code
  wDay,               \* is_daytime
  wStatus,            \* the status of the output, "none" before the first
  wCfgLat,            \* config.latitude, an Option
  wCfgLon,            \* config.longitude, an Option
  wLookups,           \* calls of query_ip in the latest refresh
  wIp,                \* what that call returned, NoIpRes without a call
  wLat,               \* latitude of the latest forecast request
  wLon,               \* longitude of the latest forecast request
  wRes,               \* "none" | "Ok" | "Err": what the latest refresh
                      \* returned
  \* IpProvider::run_interval / query_ip: one refresh
  ipPc,               \* "off" | "tick" (a refresh is due) | "done"
  ipHttp,             \* whether the request and its JSON decoding succeed
  ipLoc,              \* res.loc, the location string of the response
  ipRes,              \* what run_interval returned, NoIpRes before
  ipOut,              \* the Output the subscribers hold, NoIpRes when none
  \* the start of one provider of each kind
  spc,                \* kind -> "new" | the entry point it runs in
                      \* | "todo" (panicked in a default entry point)
                      \* | "stopped"
  sTicks,             \* kind -> ticks of its loop, up to MaxRefresh
  \* the senders of the input channels of the loops
  closed,             \* loop -> "open" | "closed" (every sender of its
                      \* input channel was dropped) | "observed" (and its
                      \* select found the channel closed)
  nSent,              \* loop -> messages sent to it, up to MaxInput
  \* WindowFactory
  window_count,       \* the AtomicU32 of that name
  window_states,      \* the keys of the map of that name
  wins,               \* window label -> "none" | "open" | "destroyed":
                      \* the windows of the application
  handlers,           \* labels of the windows with a registered handler
                      \* of window events
  hPending,           \* labels whose handler task is spawned and awaits
                      \* the lock of window_states
  assigned,           \* label -> times it was taken as a window id
  opened,             \* label -> states of it sent on open_tx
  closed_sent,        \* label -> states of it sent on close_tx
  opc,                \* open call -> "idle" | "loop" | "build" | "lock"
                      \* | "done"
  oLeft,              \* open call -> placements left to open
  oHtml,              \* open call -> whether its html_path exists
  oId,                \* open call -> window id of its current placement
  oMade,              \* open call -> windows it has built
  oRes,               \* open call -> "none" | "Ok" | "Err"
  \* SysTray (the menu of one widget config and the task of a menu event)
  menu_path,          \* config_path of the widget config of the menu
  menu_enabled,       \* is_enabled of its submenu
  menu_startup,       \* is_launched_on_startup of its submenu
  tpc,                \* task of on_menu_event: "idle" | "spawned" |
                      \* "handle"
  tId,                \* event.id the task was spawned with
  tEvent,             \* result of MenuEvent::from_str in the task
  handled             \* last call of handle_menu_event: id and event

mgrVars == <<registry, subs, mgr, ret>>
runVars == <<allow, rpc, rTimer, rLate, rBusy, rDur, last_interval_res,
             sent, chan, seen, prevRes, suppressed>>
cpuVars == <<cpc, cTimer, cpuEmits, cChan>>
sysVars == <<sysLock, sysMem, mpc, memRead>>
ivVars == <<runVars, cpuVars, sysVars, age>>
loopVars == <<nLoops, lfp, lpc, input, timer, busy, emission, done,
              sinceStop>>
weatherVars == <<wCode, wDay, wStatus, wCfgLat, wCfgLon, wLookups, wIp,
                 wLat, wLon, wRes>>
ipVars == <<ipPc, ipHttp, ipLoc, ipRes, ipOut>>
startVars == <<spc, sTicks>>
inputVars == <<closed, nSent>>
openVars == <<opc, oLeft, oHtml, oId, oMade, oRes>>
winVars == <<window_count, window_states, wins, handlers, hPending,
             assigned, opened, closed_sent, openVars>>
trayVars == <<menu_path, menu_enabled, menu_startup, tpc, tId, tEvent,
              handled>>
fnVars == <<weatherVars, ipVars, startVars, inputVars, winVars,
            trayVars>>
vars == <<mgrVars, loopVars, ivVars, fnVars>>

\* ---- helpers ------------------------------------------------------------
Running(i) == lpc[i] \in {"select", "refresh"}

RunningLoops(f) == {i \in LoopIds : lfp[i] = f /\ Running(i)}

\* No call returns in this step.
NoRet == [op |-> "none", res |-> "none"]

\* No emission is made in this step.
NoEmission ==
  [loop |-> 0, out |-> NoOutput, to |-> {}, failed |-> {}, got |-> {}]

\* No run_interval returns in this step.
NoDone == [loop |-> 0, res |-> NoOutput]

\* AsyncInterval::new / SyncInterval::new: the first tick is due at once.
IntervalNew == 0

\* Variant: MissedTickBehavior::Burst, the next deadline is one period
\* after the deadline of the tick just taken.
IntervalBurst(late) == Period - late

\* The time until the next tick after a tick taken `late` past its
\* deadline: missed ticks are skipped, the schedule stays aligned.
IntervalSkip(late) == Period - (late % Period)

\* One time unit passes on an interval.
IntervalElapse(t) == IF t > 0 THEN t - 1 ELSE 0 - ((1 - t) % Period)

\* ---- ProviderManager ----------------------------------------------------
\* Variant: create never looks the fingerprint up.
create_found_never(f) == FALSE

\* Whether create(f, ..) finds an instance for the fingerprint.
create_found(f) == registry[f] # 0

\* Variant: calls enter the registry while a destroy is in progress.
registry_free_always == TRUE

\* Whether a call may enter the registry (exclusive access).
registry_free == mgr = 0

\* Variant: create on an existing instance also emits its output again.
create_existing_refresh(f, s) ==
  /\ subs' = [subs EXCEPT ![f] = @ \cup {s}]
  /\ ret' = [op |-> "create", res |-> "Ok"]
  /\ emission' = [loop |-> registry[f], out |-> "o1", to |-> {s},
                   failed |-> {}, got |-> {s}]
  /\ UNCHANGED <<registry, mgr, nLoops, lfp, lpc, input, timer, busy,
                 sinceStop>>

\* create, when an instance exists: the subscriber is added, nothing else.
create_existing(f, s) ==
  /\ subs' = [subs EXCEPT ![f] = @ \cup {s}]
  /\ ret' = [op |-> "create", res |-> "Ok"]
  /\ emission' = NoEmission
  /\ UNCHANGED <<registry, mgr, nLoops, lfp, lpc, input, timer, busy,
                 sinceStop>>

\* ProviderManager::create, called by listen_provider.
create(f, s, cfgOk, spawnOk) ==
  /\ registry_free
  /\ done' = NoDone
  /\ UNCHANGED <<ivVars, fnVars>>
  /\ IF create_found(f)
     THEN create_existing(f, s)
     ELSE IF ~cfgOk
     THEN /\ ret' = [op |-> "create", res |-> "ConfigError"]
          /\ emission' = NoEmission
          /\ UNCHANGED <<registry, subs, mgr, nLoops, lfp, lpc, input,
                         timer, busy, sinceStop>>
     ELSE IF ~spawnOk \/ nLoops >= MaxLoops
     THEN /\ ret' = [op |-> "create", res |-> "SpawnError"]
          /\ emission' = NoEmission
          /\ UNCHANGED <<registry, subs, mgr, nLoops, lfp, lpc, input,
                         timer, busy, sinceStop>>
     ELSE LET i == nLoops + 1 IN
          /\ nLoops' = i
          /\ lfp' = [lfp EXCEPT ![i] = f]
          /\ lpc' = [lpc EXCEPT ![i] = "select"]
          /\ timer' = [timer EXCEPT ![i] = IntervalNew]
          /\ registry' = [registry EXCEPT ![f] = i]
          /\ subs' = [subs EXCEPT ![f] = {s}]
          /\ ret' = [op |-> "create", res |-> "Ok"]
          /\ emission' = NoEmission
          /\ UNCHANGED <<mgr, input, busy, sinceStop>>

\* Variant: destroy checks the fingerprint only.
destroy_found_any_subscriber(f, s) == registry[f] # 0

\* Whether destroy(f, s) refers to something the registry holds.
destroy_found(f, s) == registry[f] # 0 /\ s \in subs[f]

\* Variant: destroy never stops the loop.
destroy_stops_never(f, s) == FALSE

\* Variant: every destroy stops the loop.
destroy_stops_always(f, s) == TRUE

\* Whether destroy(f, s) has to stop the loop.
destroy_stops(f, s) == subs[f] \ {s} = {}

\* ProviderManager::destroy, called by unlisten_provider: up to the point
\* where it awaits the termination of the loop.
destroy(f, s) ==
  /\ registry_free
  /\ done' = NoDone
  /\ UNCHANGED <<ivVars, fnVars>>
  /\ emission' = NoEmission
  /\ IF ~destroy_found(f, s)
     THEN /\ ret' = [op |-> "destroy", res |-> "NotFoundError"]
          /\ UNCHANGED <<registry, subs, mgr, nLoops, lfp, lpc, input,
                         timer, busy, sinceStop>>
     ELSE /\ subs' = [subs EXCEPT ![f] = @ \ {s}]
          /\ ret' = [op |-> "destroy", res |-> "Ok"]
          /\ IF destroy_stops(f, s)
             THEN /\ input' = [input EXCEPT ![registry[f]] =
                                 Append(@, "Stop")]
                  /\ mgr' = registry[f]
                  /\ sinceStop' = 0
                  /\ UNCHANGED <<registry, nLoops, lfp, lpc, timer, busy>>
             ELSE UNCHANGED <<registry, mgr, nLoops, lfp, lpc, input, timer,
                              busy, sinceStop>>

\* ProviderManager::destroy, after the loop has terminated: the handle is
\* removed and the registry released.
destroy_join ==
  /\ mgr # 0
  /\ lpc[mgr] = "stopped"
  /\ registry' = [registry EXCEPT ![lfp[mgr]] = 0]
  /\ mgr' = 0
  /\ sinceStop' = 0
  /\ ret' = NoRet
  /\ emission' = NoEmission
  /\ done' = NoDone
  /\ UNCHANGED <<subs, nLoops, lfp, lpc, input, timer, busy, ivVars, fnVars>>

\* The listen_provider command.  It passes the config hash, the config and
\* the caller's tracked access; the subscriber is the calling window.
listen_provider ==
  \E f \in Fingerprints, s \in Subscribers, cfgOk \in BOOLEAN,
     spawnOk \in BOOLEAN : create(f, s, cfgOk, spawnOk)

\* The unlisten_provider command.  It passes the config hash; the
\* subscriber is the calling window.
unlisten_provider ==
  \E f \in Fingerprints, s \in Subscribers : destroy(f, s)

\* ---- select loops (DiskProvider, IpProvider, WeatherProvider) -----------
\* Variant: Stop does not break the loop.
tick_ready_after_stop(i) == lpc[i] \in {"select", "stopped"} /\ timer[i] <= 0

\* The tick branch of the select is ready.
tick_ready(i) == lpc[i] = "select" /\ timer[i] <= 0

\* Variant: the select polls the tick branch first and looks at the input
\* only when no tick is due.
input_ready_tick_first(i) ==
  lpc[i] = "select" /\ input[i] # <<>> /\ timer[i] > 0

\* The input branch of the select is ready.
input_ready(i) == lpc[i] = "select" /\ input[i] # <<>>

\* The tick branch is taken: run_interval starts.
select_tick(i) ==
  /\ tick_ready(i)
  /\ \E d \in 0..MaxRefresh : busy' = [busy EXCEPT ![i] = d]
  /\ lpc' = [lpc EXCEPT ![i] = "refresh"]
  /\ timer' = [timer EXCEPT ![i] = IntervalSkip(0 - @)]
  /\ ret' = NoRet
  /\ emission' = NoEmission
  /\ done' = NoDone
  /\ UNCHANGED <<registry, subs, mgr, nLoops, lfp, input, sinceStop, ivVars,
                 fnVars>>

\* Variant: the fan-out gives up at the first delivery that fails.
forward_until_failure(to, failed) == IF failed = {} THEN to ELSE {}

\* The fan-out: the subscribers that get an emission forwarded to `to` when
\* the delivery fails for `failed`; a failure is logged and the others are
\* served.
forward(to, failed) == to \ failed

\* The emitter: an Ok output goes to the subscribers of the fingerprint, an
\* Err is logged and the previous output stays.
emit_output(i, out) ==
  IF out = "Err"
  THEN emission' = NoEmission
  ELSE \E failed \in SUBSET subs[lfp[i]] :
         emission' = [loop |-> i, out |-> out, to |-> subs[lfp[i]],
                      failed |-> failed,
                      got |-> forward(subs[lfp[i]], failed)]

\* Variant: an Err result breaks the loop.
after_refresh_break_on_err(out) ==
  IF out = "Err" THEN "stopped" ELSE "select"

\* Where the loop goes after the tick branch: back to the select, whatever
\* the result of run_interval.
after_refresh(out) == "select"

\* run_interval returns and its result is handed to the emitter.
run_interval_done(i) ==
  /\ lpc[i] = "refresh"
  /\ busy[i] = 0
  /\ \E out \in Outputs \cup {"Err"} :
       /\ emit_output(i, out)
       /\ done' = [loop |-> i, res |-> out]
       /\ lpc' = [lpc EXCEPT ![i] = after_refresh(out)]
  /\ ret' = NoRet
  /\ UNCHANGED <<registry, subs, mgr, nLoops, lfp, input, timer, busy,
                 sinceStop, ivVars, fnVars>>

\* The input branch is taken: Stop breaks the loop, which drops its
\* interval; any other message is ignored.
select_input(i) ==
  /\ input_ready(i)
  /\ input' = [input EXCEPT ![i] = Tail(@)]
  /\ IF Head(input[i]) = "Stop"
     THEN /\ lpc' = [lpc EXCEPT ![i] = "stopped"]
          /\ timer' = [timer EXCEPT ![i] = 0]
     ELSE UNCHANGED <<lpc, timer>>
  /\ ret' = NoRet
  /\ emission' = NoEmission
  /\ done' = NoDone
  /\ UNCHANGED <<registry, subs, mgr, nLoops, lfp, busy, sinceStop, ivVars,
                 fnVars>>

\* Variant: the loop ends when its input channel is closed.
on_closed_break == "stopped"

\* Where the loop is after its select saw the closed input channel: at the
\* select.  In start_sync recv yields Err, which is not Ok(Stop); in
\* start_async recv yields None, which does not match Some(message), and
\* the select goes on waiting for the tick.
on_closed == "select"

\* The select finds the input channel empty and closed.
closed_input(i) ==
  /\ lpc[i] = "select"
  /\ input[i] = <<>>
  /\ closed[i] # "open"
  /\ closed' = [closed EXCEPT ![i] = "observed"]
  /\ lpc' = [lpc EXCEPT ![i] = on_closed]
  /\ ret' = NoRet
  /\ emission' = NoEmission
  /\ done' = NoDone
  /\ UNCHANGED <<registry, subs, mgr, nLoops, lfp, input, timer, busy,
                 sinceStop, nSent, ivVars, weatherVars, ipVars, startVars,
                 winVars, trayVars>>

\* A holder of a sender of the input channel of loop i sends a message.
send_input(i, m) ==
  /\ Running(i)
  /\ closed[i] = "open"
  /\ nSent[i] < MaxInput
  /\ input' = [input EXCEPT ![i] = Append(@, m)]
  /\ nSent' = [nSent EXCEPT ![i] = @ + 1]
  /\ ret' = NoRet
  /\ emission' = NoEmission
  /\ done' = NoDone
  /\ UNCHANGED <<registry, subs, mgr, nLoops, lfp, lpc, timer, busy,
                 sinceStop, closed, ivVars, weatherVars, ipVars, startVars,
                 winVars, trayVars>>

\* The last sender of the input channel of loop i is dropped.
drop_senders(i) ==
  /\ Running(i)
  /\ closed[i] = "open"
  /\ closed' = [closed EXCEPT ![i] = "closed"]
  /\ ret' = NoRet
  /\ emission' = NoEmission
  /\ done' = NoDone
  /\ UNCHANGED <<registry, subs, mgr, nLoops, lfp, lpc, input, timer, busy,
                 sinceStop, nSent, ivVars, weatherVars, ipVars, startVars,
                 winVars, trayVars>>

\* DiskProvider::start_sync
start_sync ==
  \E i \in LoopIds :
    /\ lpc[i] # "none"
    /\ runtime_type(lfp[i]) = "Sync"
    /\ select_tick(i) \/ run_interval_done(i) \/ select_input(i)

\* IpProvider::start_async, WeatherProvider::start_async
start_async ==
  \E i \in LoopIds :
    /\ lpc[i] # "none"
    /\ runtime_type(lfp[i]) = "Async"
    /\ select_tick(i) \/ run_interval_done(i) \/ select_input(i)

\* ---- time ---------------------------------------------------------------
\* A loop has a step to take without waiting.
LoopReady(i) ==
  \/ tick_ready(i)
  \/ input_ready(i)
  \/ lpc[i] = "refresh" /\ busy[i] = 0

\* One time unit passes.
AdvanceTime ==
  /\ \A i \in LoopIds : ~LoopReady(i)
  /\ \E i \in LoopIds : Running(i)
  /\ timer' = [i \in LoopIds |->
                 IF Running(i) THEN IntervalElapse(timer[i]) ELSE timer[i]]
  /\ busy' = [i \in LoopIds |-> IF busy[i] > 0 THEN busy[i] - 1 ELSE 0]
  /\ sinceStop' = IF mgr # 0 /\ sinceStop <= Period
                  THEN sinceStop + 1 ELSE sinceStop
  /\ ret' = NoRet
  /\ emission' = NoEmission
  /\ done' = NoDone
  /\ UNCHANGED <<registry, subs, mgr, nLoops, lfp, lpc, input, ivVars, fnVars>>

\* ---- impl_interval_provider::run_async ---------------------------------
Results == Outputs \cup {"Err"}

\* Variant: the first tick completes one period after the start.
interval_first_delayed == Period

\* tokio::time::interval: the first tick completes immediately.
interval_first == 0

\* interval.tick().await returns and run_interval starts.
run_async_tick ==
  /\ rpc = "tick"
  /\ rTimer <= 0
  /\ rpc' = "run"
  /\ rLate' = 0 - rTimer
  /\ rTimer' = IntervalSkip(0 - rTimer)
  /\ \E d \in 0..MaxRun : rBusy' = d /\ rDur' = d
  /\ UNCHANGED <<allow, last_interval_res, sent, chan, seen, prevRes,
                 suppressed, cpuVars, sysVars, age, mgrVars, loopVars, fnVars>>

\* Variant: an error result is never sent.
should_emit_ok_only(res) ==
  res # "Err" /\ (allow \/ last_interval_res # res)

\* Variant: every result is sent.
should_emit_always(res) == TRUE

\* Whether the result of a tick is sent.
should_emit(res) == allow \/ last_interval_res # res

\* run_interval returns: its result, an error included, is converted into
\* a ProviderResult and goes to the send unless it is a duplicate.
run_async_emit ==
  /\ rpc = "run"
  /\ rBusy = 0
  /\ \E res \in Results :
       /\ prevRes' = res
       /\ IF should_emit(res)
          THEN /\ rpc' = "send"
               /\ suppressed' = FALSE
          ELSE /\ rpc' = "tick"
               /\ suppressed' = TRUE
  /\ rLate' = 0
  /\ rDur' = 0
  /\ UNCHANGED <<allow, rTimer, rBusy, last_interval_res, sent, chan, seen,
                 cpuVars, sysVars, age, mgrVars, loopVars, fnVars>>

\* Variant: the channel hands the newest value over first.
chan_put_front(q, x) == <<x>> \o q

\* tokio mpsc: values are received in the order they were sent.
chan_put(q, x) == Append(q, x)

\* emit_result_tx.send(..).await completes once the channel has room;
\* last_interval_res is set after it.
run_async_send ==
  /\ rpc = "send"
  /\ Len(chan) < ChanCap
  /\ sent' = [seq |-> (sent.seq + 1) % SeqMod, val |-> prevRes]
  /\ chan' = chan_put(chan, sent'.seq)
  /\ last_interval_res' = prevRes
  /\ rpc' = "tick"
  /\ UNCHANGED <<allow, rTimer, rLate, rBusy, rDur, seen, prevRes,
                 suppressed, cpuVars, sysVars, age, mgrVars, loopVars, fnVars>>

\* The receiving end of the channel takes the next value.
emit_result_rx_recv ==
  /\ chan # <<>>
  /\ seen' = Head(chan)
  /\ chan' = Tail(chan)
  /\ UNCHANGED <<allow, rpc, rTimer, rLate, rBusy, rDur, last_interval_res,
                 sent, prevRes, suppressed, cpuVars, sysVars, age, mgrVars,
                 loopVars, fnVars>>

\* ---- CpuProvider --------------------------------------------------------
\* Variant: the refresh of the Cpu provider is System::refresh_all, which
\* also rewrites the memory fields.
cpu_refresh_all(m) == MemValues

\* The memory fields of the snapshot after the Cpu provider had the lock:
\* refresh_and_emit refreshes nothing.
cpu_refresh(m) == {m}

\* CpuProvider::refresh_and_emit, sysinfo.lock().await: the lock is taken.
refresh_and_emit_lock ==
  /\ cpc = "lock"
  /\ sysLock = "none"
  /\ sysLock' = "cpu"
  /\ sysMem' \in cpu_refresh(sysMem)
  /\ cpc' = "send"
  /\ UNCHANGED <<cTimer, cpuEmits, cChan, mpc, memRead, runVars, age,
                 mgrVars, loopVars, fnVars>>

\* CpuProvider::refresh_and_emit, emit_output_tx.send(..).await completes
\* once the channel has room: one output is sent, and the guard is dropped
\* at the end of the function.
refresh_and_emit ==
  /\ cpc = "send"
  /\ cChan < ChanCap
  /\ cChan' = cChan + 1
  /\ cpuEmits' = IF cpuEmits < MaxCount THEN cpuEmits + 1 ELSE cpuEmits
  /\ sysLock' = "none"
  /\ cpc' = "tick"
  /\ UNCHANGED <<cTimer, sysMem, mpc, memRead, runVars, age, mgrVars,
                 loopVars, fnVars>>

\* on_start: the interval is created and the first refresh_and_emit is
\* entered.
on_start ==
  /\ cpc = "start"
  /\ cpc' = "lock"
  /\ cTimer' = interval_first
  /\ UNCHANGED <<cpuEmits, cChan, sysVars, runVars, age, mgrVars, loopVars,
                 fnVars>>

\* on_start, the loop body: interval.tick().await, then refresh_and_emit.
\* The interval keeps the default behaviour: the next deadline is one
\* period after the previous deadline.
on_start_tick ==
  /\ cpc = "tick"
  /\ cTimer <= 0
  /\ cTimer' = cTimer + Period
  /\ cpc' = "lock"
  /\ UNCHANGED <<cpuEmits, cChan, sysVars, runVars, age, mgrVars, loopVars,
                 fnVars>>

\* on_stop: the task is aborted at the await it is at; a guard it holds is
\* dropped.
on_stop ==
  /\ cpc \in {"start", "lock", "send", "tick"}
  /\ cpc' = "aborted"
  /\ sysLock' = IF sysLock = "cpu" THEN "none" ELSE sysLock
  /\ UNCHANGED <<cTimer, cpuEmits, cChan, sysMem, mpc, memRead, runVars,
                 age, mgrVars, loopVars, fnVars>>

\* The receiving end of the channel behind emit_output_tx takes an output.
emit_output_rx_recv ==
  /\ cChan > 0
  /\ cChan' = cChan - 1
  /\ UNCHANGED <<cpc, cTimer, cpuEmits, sysVars, runVars, age, mgrVars,
                 loopVars, fnVars>>

\* ---- MemoryProvider -----------------------------------------------------
\* get_refreshed_variables, sysinfo.lock().await: the lock is taken.
get_refreshed_variables_lock ==
  /\ mpc = "idle"
  /\ sysLock = "none"
  /\ sysLock' = "mem"
  /\ mpc' = "held"
  /\ UNCHANGED <<sysMem, memRead, runVars, cpuVars, age, mgrVars, loopVars,
                 fnVars>>

\* get_refreshed_variables, the rest: refresh_memory, the fields are read
\* into MemoryVariables, and the guard is dropped at the return.
get_refreshed_variables ==
  /\ mpc = "held"
  /\ \E m \in MemValues : sysMem' = m /\ memRead' = m
  /\ sysLock' = "none"
  /\ mpc' = "idle"
  /\ UNCHANGED <<runVars, cpuVars, age, mgrVars, loopVars, fnVars>>

\* ---- WeatherProvider ----------------------------------------------------
\* weather/provider.rs, the older get_weather_status: day and night are
\* told apart for Clear and for codes 1 and 2 only, and 95 and above is
\* Snow.
get_weather_status_older(code, is_daytime) ==
  IF code = 0 THEN (IF is_daytime THEN "ClearDay" ELSE "ClearNight")
  ELSE IF code \in {1, 2}
  THEN (IF is_daytime THEN "CloudyDay" ELSE "CloudyNight")
  ELSE IF code \in 3..50 THEN "Overcast"
  ELSE IF code \in 51..62 THEN "LightRain"
  ELSE IF code \in 63..70 THEN "HeavyRain"
  ELSE IF code \in 71..79 THEN "Snow"
  ELSE IF code \in 80..84 THEN "HeavyRain"
  ELSE IF code \in 85..94 THEN "Snow"
  ELSE "Snow"

\* WeatherProvider::get_weather_status (weather_provider.rs)
get_weather_status(code, is_daytime) ==
  IF code = 0 THEN (IF is_daytime THEN "ClearDay" ELSE "ClearNight")
  ELSE IF code \in 1..50
  THEN (IF is_daytime THEN "CloudyDay" ELSE "CloudyNight")
  ELSE IF code \in 51..62
  THEN (IF is_daytime THEN "LightRainDay" ELSE "LightRainNight")
  ELSE IF code \in 63..70
  THEN (IF is_daytime THEN "HeavyRainDay" ELSE "HeavyRainNight")
  ELSE IF code \in 71..79
  THEN (IF is_daytime THEN "SnowDay" ELSE "SnowNight")
  ELSE IF code \in 80..84
  THEN (IF is_daytime THEN "HeavyRainDay" ELSE "HeavyRainNight")
  ELSE IF code \in 85..94
  THEN (IF is_daytime THEN "SnowDay" ELSE "SnowNight")
  ELSE (IF is_daytime THEN "ThunderDay" ELSE "ThunderNight")

\* ---- IpProvider: the location of the IPinfo response --------------------
\* The location strings: every string of up to MaxLoc characters of
\* LocChars, and the two strings of the scenario of the specification.
LocChars == {"1", ".", ",", "-", "x"}

LocExample ==
  <<"4", "8", ".", "8", "5", "6", "6", ",", "2", ".", "3", "5", "2", "2">>

LocInvalid == <<"i", "n", "v", "a", "l", "i", "d">>

Locs ==
  UNION {[1..n -> LocChars] : n \in 0..MaxLoc}
    \cup {LocExample, LocInvalid}

\* Option<T>
None == [some |-> FALSE]

Some(v) == [some |-> TRUE, val |-> v]

\* anyhow::Result<IpOutput>; the coordinates are in units of 10^-Scale.
Scale == MaxLoc

IpOk(lat, lon) ==
  [kind |-> "Ok", approx_latitude |-> lat, approx_longitude |-> lon]

IpErr(msg) == [kind |-> "Err", msg |-> msg]

NoIpRes == [kind |-> "None"]

DigitValue ==
  [c \in {"0", "1", "2", "3", "4", "5", "6", "7", "8", "9"} |->
     CASE c = "0" -> 0 [] c = "1" -> 1 [] c = "2" -> 2 [] c = "3" -> 3
       [] c = "4" -> 4 [] c = "5" -> 5 [] c = "6" -> 6 [] c = "7" -> 7
       [] c = "8" -> 8 [] c = "9" -> 9]

\* str::split(','): the parts between the commas, at least one part.
RECURSIVE split(_)
split(s) ==
  IF \E k \in 1..Len(s) : s[k] = ","
  THEN LET k == CHOOSE c \in 1..Len(s) :
                  s[c] = "," /\ \A j \in 1..(c - 1) : s[j] # ","
       IN <<SubSeq(s, 1, k - 1)>> \o split(SubSeq(s, k + 1, Len(s)))
  ELSE <<s>>

\* The n-th call of next() on the iterator of the parts.
loc_parts_next(parts, n) ==
  IF n <= Len(parts) THEN Some(parts[n]) ELSE None

\* The value of the digits of body at the positions from k on, with the
\* decimal point at position dot, in units of 10^-Scale.
RECURSIVE magnitude(_, _, _)
magnitude(body, dot, k) ==
  IF k > Len(body) THEN 0
  ELSE IF k = dot THEN magnitude(body, dot, k + 1)
  ELSE DigitValue[body[k]]
         * 10^(Scale + (IF k < dot THEN dot - 1 - k ELSE dot - k))
       + magnitude(body, dot, k + 1)

\* str::parse::<f32>().ok(): an optional sign, then digits with at most one
\* decimal point and at least one digit (no exponent, inf or nan can be
\* written with the characters of Locs).
parse_f32(s) ==
  LET signed == Len(s) > 0 /\ s[1] \in {"-", "+"}
      body == IF signed THEN Tail(s) ELSE s
      dots == {k \in 1..Len(body) : body[k] = "."}
      digits == {k \in 1..Len(body) : body[k] \in DOMAIN DigitValue}
      dot == IF dots = {} THEN Len(body) + 1 ELSE CHOOSE k \in dots : TRUE
      mag == magnitude(body, dot, 1)
  IN IF digits = {} \/ Cardinality(dots) > 1
          \/ digits \cup dots # 1..Len(body)
     THEN None
     ELSE Some(IF signed /\ s[1] = "-" THEN 0 - mag ELSE mag)

\* Variant: the latitude is read from the second part and the longitude
\* from the first.
query_ip_swapped(loc) ==
  LET loc_parts == split(loc)
      lon == loc_parts_next(loc_parts, 1)
      lat == loc_parts_next(loc_parts, 2)
  IN IF ~lat.some \/ ~parse_f32(lat.val).some
     THEN IpErr("Failed to parse latitude from IPinfo.")
     ELSE IF ~lon.some \/ ~parse_f32(lon.val).some
     THEN IpErr("Failed to parse longitude from IPinfo.")
     ELSE IpOk(parse_f32(lat.val).val, parse_f32(lon.val).val)

\* IpProvider::query_ip, from the decoded response on: the fields of the
\* output are built in order, and the first that fails returns the error.
query_ip(loc) ==
  LET loc_parts == split(loc)
      lat == loc_parts_next(loc_parts, 1)
      long == loc_parts_next(loc_parts, 2)
  IN IF ~lat.some \/ ~parse_f32(lat.val).some
     THEN IpErr("Failed to parse latitude from IPinfo.")
     ELSE IF ~long.some \/ ~parse_f32(long.val).some
     THEN IpErr("Failed to parse longitude from IPinfo.")
     ELSE IpOk(parse_f32(lat.val).val, parse_f32(long.val).val)

\* The Output the subscribers hold after a result went to the emitter: an
\* Ok output replaces it, an Err is logged and the previous one stays.
held_output(prev, res) == IF res.kind = "Ok" THEN res ELSE prev

\* The tick branch of IpProvider::start_async: run_interval, whose request
\* or decoding may fail, and the hand-over of its result to the emitter.
ip_run_interval ==
  /\ ipPc = "tick"
  /\ ipPc' = "done"
  /\ ipRes' = IF ipHttp THEN query_ip(ipLoc) ELSE IpErr("reqwest")
  /\ ipOut' = held_output(ipOut, ipRes')
  /\ UNCHANGED <<ipHttp, ipLoc, mgrVars, loopVars, ivVars, weatherVars,
                 startVars, inputVars, winVars, trayVars>>

\* ---- WeatherProvider: one refresh ----------------------------------------
\* What the IP lookup of a refresh can return: the output of a response
\* with a well-formed location, or the error of a malformed one.
IpResults == {query_ip(LocExample), query_ip(LocInvalid)}

\* The configured coordinates, in units of 10^-Scale.
ConfigLatitude == 7 * 10^Scale

ConfigLongitude == 9 * 10^Scale

\* Variant: a coordinate that is configured is used, and only the missing
\* one is taken from the lookup.
coordinates_partial_config(latitude, longitude, ip) ==
  IF latitude.some /\ longitude.some
  THEN [kind |-> "Ok", lookups |-> 0, ip |-> NoIpRes,
        latitude |-> latitude.val, longitude |-> longitude.val]
  ELSE IF ip.kind = "Err"
  THEN [kind |-> "Err", lookups |-> 1, ip |-> ip]
  ELSE [kind |-> "Ok", lookups |-> 1, ip |-> ip,
        latitude |->
          IF latitude.some THEN latitude.val ELSE ip.approx_latitude,
        longitude |->
          IF longitude.some THEN longitude.val ELSE ip.approx_longitude]

\* WeatherProvider::run_interval, the match on the configured coordinates:
\* both configured, or query_ip, whose result is ip and whose error is
\* returned by the `?`.
coordinates(latitude, longitude, ip) ==
  IF latitude.some /\ longitude.some
  THEN [kind |-> "Ok", lookups |-> 0, ip |-> NoIpRes,
        latitude |-> latitude.val, longitude |-> longitude.val]
  ELSE IF ip.kind = "Err"
  THEN [kind |-> "Err", lookups |-> 1, ip |-> ip]
  ELSE [kind |-> "Ok", lookups |-> 1, ip |-> ip,
        latitude |-> ip.approx_latitude,
        longitude |-> ip.approx_longitude]

\* Variant: the status is that of the day, whatever is_day says.
weather_output_day_status(code, is_day) ==
  [is_daytime |-> is_day = 1, status |-> get_weather_status(code, TRUE)]

\* WeatherProvider::run_interval, the output built from current_weather.
weather_output(code, is_day) ==
  LET is_daytime == is_day = 1
  IN [is_daytime |-> is_daytime,
      status |-> get_weather_status(code, is_daytime)]

\* WeatherProvider::run_interval: the coordinates, then the forecast
\* request with them, whose response carries a weather code and is_day;
\* the output carries their status.  A failed lookup or a failed request
\* returns the error, and nothing of the output is built.
weather_run_interval ==
  /\ \E ip \in IpResults, http \in BOOLEAN, code \in 0..MaxCode,
        is_day \in {0, 1} :
       LET c == coordinates(wCfgLat, wCfgLon, ip)
       IN /\ wLookups' = c.lookups
          /\ wIp' = c.ip
          /\ IF c.kind = "Err"
             THEN /\ wRes' = "Err"
                  /\ UNCHANGED <<wLat, wLon, wCode, wDay, wStatus>>
             ELSE /\ wLat' = c.latitude
                  /\ wLon' = c.longitude
                  /\ IF http
                     THEN /\ wRes' = "Ok"
                          /\ wCode' = code
                          /\ wDay' = weather_output(code, is_day).is_daytime
                          /\ wStatus' = weather_output(code, is_day).status
                     ELSE /\ wRes' = "Err"
                          /\ UNCHANGED <<wCode, wDay, wStatus>>
  /\ UNCHANGED <<wCfgLat, wCfgLon, mgrVars, loopVars, ivVars, ipVars,
                 startVars, inputVars, winVars, trayVars>>

\* ---- the start of a provider: the entry point its tag selects ------------
\* The provider kinds: Disk, Ip and Weather implement Provider by hand, and
\* "interval" is a kind whose impl is made by impl_interval_provider.
Kinds == {"disk", "ip", "weather", "interval"}

\* threading_type of the impl made by impl_interval_provider
threading_type == "Sync"

\* The tag of a kind.
provider_tag(k) == IF k = "interval" THEN threading_type ELSE runtime_type(k)

\* The entry points the impl block of a kind defines.
implemented(k) ==
  CASE k = "disk" -> {"start_sync"}
    [] k \in {"ip", "weather"} -> {"start_async"}
    [] k = "interval" -> {"run_async"}

\* The entry point a tag selects, in the trait of the kind: the tag
\* determines whether the sync or the async one is called.
entry_point(k) ==
  IF k = "interval"
  THEN (IF provider_tag(k) = "Sync" THEN "run_sync" ELSE "run_async")
  ELSE (IF provider_tag(k) = "Sync" THEN "start_sync" ELSE "start_async")

\* A provider of kind k is started: the entry point of its tag is called,
\* which is the default of the trait, todo!(), when the impl of the kind
\* does not define it.
start_provider(k) ==
  /\ spc[k] = "new"
  /\ spc' = [spc EXCEPT ![k] = IF entry_point(k) \in implemented(k)
                                THEN entry_point(k) ELSE "todo"]
  /\ UNCHANGED <<sTicks, mgrVars, loopVars, ivVars, weatherVars, ipVars,
                 inputVars, winVars, trayVars>>

\* The loop of the entry point takes a tick.
entry_tick(k) ==
  /\ spc[k] \in {"start_sync", "start_async", "run_async"}
  /\ sTicks[k] < MaxRefresh
  /\ sTicks' = [sTicks EXCEPT ![k] = @ + 1]
  /\ UNCHANGED <<spc, mgrVars, loopVars, ivVars, weatherVars, ipVars,
                 inputVars, winVars, trayVars>>

\* The select loop of the entry point takes a Stop.
entry_stop(k) ==
  /\ spc[k] \in {"start_sync", "start_async"}
  /\ spc' = [spc EXCEPT ![k] = "stopped"]
  /\ UNCHANGED <<sTicks, mgrVars, loopVars, ivVars, weatherVars, ipVars,
                 inputVars, winVars, trayVars>>

\* ---- WindowFactory -------------------------------------------------------
\* The open calls that may run at the same time.
OpenCalls == {"o1", "o2"}

\* u32::to_string: the decimal digits of n.
RECURSIVE to_string(_)
to_string(n) ==
  LET digit == <<"0", "1", "2", "3", "4", "5", "6", "7", "8", "9">>
  IN IF n < 10 THEN digit[n + 1]
     ELSE to_string(n \div 10) \o digit[(n % 10) + 1]

\* The window ids of the windows the factory counts.
WindowIds == {to_string(n) : n \in 1..MaxWindows}

\* open is called: window_placements gives the placements of the config.
open_call(t) ==
  /\ opc[t] = "idle"
  /\ opc' = [opc EXCEPT ![t] = "loop"]
  /\ \E n \in 0..MaxPlacements : oLeft' = [oLeft EXCEPT ![t] = n]
  /\ \E html \in BOOLEAN : oHtml' = [oHtml EXCEPT ![t] = html]
  /\ UNCHANGED <<oId, oMade, oRes, window_count, window_states, wins,
                 handlers, hPending, assigned, opened, closed_sent, mgrVars,
                 loopVars, ivVars, weatherVars, ipVars, startVars, inputVars,
                 trayVars>>

\* Variant: the count taken for a window is given back when its open
\* fails.
count_after_bail_given_back(c) == c - 1

\* The window count after the bail! of a missing HTML file: the count
\* taken for the window stays taken.
count_after_bail(c) == c

\* open, the head of the loop over the placements: Ok(()) after the last;
\* otherwise fetch_add takes the next count, whose digits are the window
\* id, and a missing HTML file ends the call with an error.
open_next(t) ==
  /\ opc[t] = "loop"
  /\ IF oLeft[t] = 0
     THEN /\ opc' = [opc EXCEPT ![t] = "done"]
          /\ oRes' = [oRes EXCEPT ![t] = "Ok"]
          /\ UNCHANGED <<oId, window_count, assigned>>
     ELSE /\ window_count < MaxWindows
          /\ LET new_count == window_count + 1
                 window_id == to_string(new_count)
             IN /\ oId' = [oId EXCEPT ![t] = window_id]
                /\ assigned' = [assigned EXCEPT ![window_id] = @ + 1]
                /\ IF oHtml[t]
                   THEN /\ window_count' = new_count
                        /\ opc' = [opc EXCEPT ![t] = "build"]
                        /\ oRes' = oRes
                   ELSE /\ window_count' = count_after_bail(new_count)
                        /\ opc' = [opc EXCEPT ![t] = "done"]
                        /\ oRes' = [oRes EXCEPT ![t] = "Err"]
  /\ UNCHANGED <<oLeft, oHtml, oMade, window_states, wins, handlers,
                 hPending, opened, closed_sent, mgrVars, loopVars, ivVars,
                 weatherVars, ipVars, startVars, inputVars,
                 trayVars>>

\* open, WebviewWindowBuilder::build and the serialisation of the state
\* for window.eval: a failed build returns its error; a failed
\* serde_json::to_string returns its error after the window was built.
open_build(t) ==
  /\ opc[t] = "build"
  /\ \E outcome \in {"built", "build_err", "json_err"} :
       /\ IF outcome = "build_err"
          THEN UNCHANGED <<wins, oMade>>
          ELSE /\ wins' = [wins EXCEPT ![oId[t]] = "open"]
               /\ oMade' = [oMade EXCEPT ![t] = @ + 1]
       /\ IF outcome = "built"
          THEN /\ opc' = [opc EXCEPT ![t] = "lock"]
               /\ oRes' = oRes
          ELSE /\ opc' = [opc EXCEPT ![t] = "done"]
               /\ oRes' = [oRes EXCEPT ![t] = "Err"]
  /\ UNCHANGED <<oLeft, oHtml, oId, window_count, window_states, handlers,
                 hPending, assigned, opened, closed_sent, mgrVars, loopVars,
                 ivVars, weatherVars, ipVars, startVars, inputVars,
                 trayVars>>

\* open, from window_states.lock().await to the end of the iteration,
\* where the guard is dropped: the state is inserted, the handler of the
\* window events is registered (it gets the events from then on), and the
\* state is sent on open_tx (which has the receiver the factory keeps).
open_insert(t) ==
  /\ opc[t] = "lock"
  /\ window_states' = window_states \cup {oId[t]}
  /\ handlers' = handlers \cup {oId[t]}
  /\ opened' = [opened EXCEPT ![oId[t]] = @ + 1]
  /\ oLeft' = [oLeft EXCEPT ![t] = @ - 1]
  /\ opc' = [opc EXCEPT ![t] = "loop"]
  /\ UNCHANGED <<oHtml, oId, oMade, oRes, window_count, wins, hPending,
                 assigned, closed_sent, mgrVars, loopVars, ivVars,
                 weatherVars, ipVars, startVars, inputVars,
                 trayVars>>

\* A window is destroyed (close_by_id, or closed from outside): its
\* Destroyed event goes to the handler registered for it, which spawns the
\* task that removes its state.
window_destroyed(w) ==
  /\ wins[w] = "open"
  /\ wins' = [wins EXCEPT ![w] = "destroyed"]
  /\ hPending' = IF w \in handlers THEN hPending \cup {w} ELSE hPending
  /\ UNCHANGED <<window_count, window_states, handlers, assigned, opened,
                 closed_sent, openVars, mgrVars, loopVars, ivVars,
                 weatherVars, ipVars, startVars, inputVars,
                 trayVars>>

\* register_window_events, the task spawned for a Destroyed event: with the
\* lock, the state of the window is removed and, if there was one, sent on
\* close_tx.
on_window_event(w) ==
  /\ w \in hPending
  /\ hPending' = hPending \ {w}
  /\ window_states' = window_states \ {w}
  /\ closed_sent' = IF w \in window_states
                    THEN [closed_sent EXCEPT ![w] = @ + 1]
                    ELSE closed_sent
  /\ UNCHANGED <<window_count, wins, handlers, assigned, opened, openVars,
                 mgrVars, loopVars, ivVars, weatherVars, ipVars, startVars,
                 inputVars,
                 trayVars>>

\* ---- time of the interval loops -----------------------------------------
\* One time unit passes for the interval loops: each of them is in a
\* run_interval or waits for its timer.  Taking the lock and handing a value
\* to a channel take no time.
Elapse ==
  /\ rpc \in {"tick", "run"} \/ cpc = "tick"
  /\ ~(rpc = "tick" /\ rTimer <= 0)
  /\ ~(rpc = "run" /\ rBusy = 0)
  /\ rpc # "send"
  /\ cpc \notin {"start", "lock", "send"}
  /\ ~(cpc = "tick" /\ cTimer <= 0)
  /\ mpc # "held"
  /\ rTimer' = IF rpc = "off" THEN rTimer ELSE rTimer - 1
  /\ rBusy' = IF rBusy > 0 THEN rBusy - 1 ELSE 0
  /\ cTimer' = IF cpc = "tick" THEN cTimer - 1 ELSE cTimer
  /\ age' = IF age < Period THEN age + 1 ELSE age
  /\ UNCHANGED <<allow, rpc, rLate, rDur, last_interval_res, sent, chan,
                 seen, prevRes, suppressed, cpc, cpuEmits, cChan, sysVars,
                 mgrVars, loopVars, fnVars>>

\* ---- specifications -----------------------------------------------------
MgrInit ==
  /\ registry = [f \in Fingerprints |-> 0]
  /\ subs = [f \in Fingerprints |-> {}]
  /\ mgr = 0
  /\ ret = NoRet
  /\ nLoops = 0
  /\ lfp = [i \in LoopIds |-> "none"]
  /\ lpc = [i \in LoopIds |-> "none"]
  /\ input = [i \in LoopIds |-> <<>>]
  /\ timer = [i \in LoopIds |-> 0]
  /\ busy = [i \in LoopIds |-> 0]
  /\ emission = NoEmission
  /\ done = NoDone
  /\ sinceStop = 0

IvInit(pc, cpuPc, memPc) ==
  /\ rpc = pc
  /\ rTimer = interval_first
  /\ rLate = 0
  /\ rBusy = 0
  /\ rDur = 0
  /\ last_interval_res = NoOutput
  /\ sent = [seq |-> 0, val |-> NoOutput]
  /\ chan = <<>>
  /\ seen = 0
  /\ prevRes = NoOutput
  /\ suppressed = FALSE
  /\ cpc = cpuPc
  /\ cTimer = 0
  /\ cpuEmits = 0
  /\ cChan = 0
  /\ age = 0
  /\ sysLock = "none"
  /\ sysMem = "m0"
  /\ mpc = memPc
  /\ memRead = NoOutput

\* A Weather provider with the given configuration, before its first
\* refresh.
WeatherNew(latitude, longitude) ==
  /\ wCode = 0
  /\ wDay = FALSE
  /\ wStatus = "none"
  /\ wCfgLat = latitude
  /\ wCfgLon = longitude
  /\ wLookups = 0
  /\ wIp = NoIpRes
  /\ wLat = 0
  /\ wLon = 0
  /\ wRes = "none"

WeatherInit == WeatherNew(None, None)

\* No Ip provider.
IpOff ==
  /\ ipPc = "off"
  /\ ipHttp = TRUE
  /\ ipLoc = <<>>
  /\ ipRes = NoIpRes
  /\ ipOut = NoIpRes

\* No provider is being started.
StartOff ==
  /\ spc = [k \in Kinds |-> "stopped"]
  /\ sTicks = [k \in Kinds |-> 0]

\* The senders of the input channels are held, and nothing but the Stop
\* of a destroy is sent.
InputInit ==
  /\ closed = [i \in LoopIds |-> "open"]
  /\ nSent = [i \in LoopIds |-> 0]

\* ---- SysTray: the ids of the tray menu events ---------------------------
\* A string is the sequence of its characters.
\* PathBuf: the config paths of at most MaxPath characters, each '_', the
\* separator of the ids, or a letter.
Paths == UNION {[1..n -> {"_", "a"}] : n \in 0..MaxPath}

\* enum MenuEvent
ShowConfigFolder == [kind |-> "ShowConfigFolder"]

ReloadConfigs == [kind |-> "ReloadConfigs"]

Exit == [kind |-> "Exit"]

ToggleWidgetConfig(enable, path) ==
  [kind |-> "ToggleWidgetConfig", enable |-> enable, path |-> path]

ToggleStartupWidgetConfig(enable, path) ==
  [kind |-> "ToggleStartupWidgetConfig", enable |-> enable, path |-> path]

\* Result<MenuEvent, anyhow::Error>
MenuOk(e) == [kind |-> "Ok", val |-> e]

MenuErr == [kind |-> "Err"]

\* The string literals of to_string.
literal ==
  [show_config_folder |->
     <<"s", "h", "o", "w", "_", "c", "o", "n", "f", "i", "g", "_", "f", "o",
       "l", "d", "e", "r">>,
   reload_configs |->
     <<"r", "e", "l", "o", "a", "d", "_", "c", "o", "n", "f", "i", "g", "s">>,
   exit |-> <<"e", "x", "i", "t">>,
   toggle_widget_config |->
     <<"t", "o", "g", "g", "l", "e", "_", "w", "i", "d", "g", "e", "t", "_",
       "c", "o", "n", "f", "i", "g", "_">>,
   toggle_startup_widget_config |->
     <<"t", "o", "g", "g", "l", "e", "_", "s", "t", "a", "r", "t", "u", "p",
       "_", "w", "i", "d", "g", "e", "t", "_", "c", "o", "n", "f", "i", "g",
       "_">>]

\* The string slices of the patterns of from_str.
pattern ==
  [show |-> <<"s", "h", "o", "w">>,
   config |-> <<"c", "o", "n", "f", "i", "g">>,
   folder |-> <<"f", "o", "l", "d", "e", "r">>,
   reload |-> <<"r", "e", "l", "o", "a", "d">>,
   configs |-> <<"c", "o", "n", "f", "i", "g", "s">>,
   exit |-> <<"e", "x", "i", "t">>,
   toggle |-> <<"t", "o", "g", "g", "l", "e">>,
   widget |-> <<"w", "i", "d", "g", "e", "t">>,
   startup |-> <<"s", "t", "a", "r", "t", "u", "p">>,
   true |-> <<"t", "r", "u", "e">>,
   false |-> <<"f", "a", "l", "s", "e">>]

\* PathExt::to_unicode_string of a path whose characters are Unicode.
to_unicode_string(path) == path

\* format!("{}", enable)
fmt_bool(enable) ==
  IF enable THEN <<"t", "r", "u", "e">> ELSE <<"f", "a", "l", "s", "e">>

\* MenuEvent::to_string
MenuEvent_to_string(e) ==
  CASE e.kind = "ShowConfigFolder" -> literal.show_config_folder
    [] e.kind = "ReloadConfigs" -> literal.reload_configs
    [] e.kind = "Exit" -> literal.exit
    [] e.kind = "ToggleWidgetConfig" ->
         literal.toggle_widget_config \o fmt_bool(e.enable) \o <<"_">>
           \o to_unicode_string(e.path)
    [] e.kind = "ToggleStartupWidgetConfig" ->
         literal.toggle_startup_widget_config \o fmt_bool(e.enable) \o <<"_">>
           \o to_unicode_string(e.path)

\* str::split(c): the parts between the occurrences of c, at least one.
RECURSIVE split_by(_, _)
split_by(s, c) ==
  IF \E k \in 1..Len(s) : s[k] = c
  THEN LET k == CHOOSE i \in 1..Len(s) :
                  s[i] = c /\ \A j \in 1..(i - 1) : s[j] # c
       IN <<SubSeq(s, 1, k - 1)>> \o split_by(SubSeq(s, k + 1, Len(s)), c)
  ELSE <<s>>

\* [&str]::join(sep)
RECURSIVE join(_, _)
join(parts, sep) ==
  IF Len(parts) = 0 THEN <<>>
  ELSE IF Len(parts) = 1 THEN parts[1]
  ELSE parts[1] \o sep \o join(Tail(parts), sep)

path_join_no_separator(path) == join(path, <<>>)

\* PathBuf::from(path.join("_")) of the rest pattern path @ ..
path_join(path) == join(path, <<"_">>)

\* MenuEvent::from_str: the first arm that matches the parts.
MenuEvent_from_str(event) ==
  LET parts == split_by(event, "_")
      n == Len(parts)
  IN IF parts = <<pattern.show, pattern.config, pattern.folder>>
     THEN MenuOk(ShowConfigFolder)
     ELSE IF parts = <<pattern.reload, pattern.configs>>
     THEN MenuOk(ReloadConfigs)
     ELSE IF parts = <<pattern.exit>>
     THEN MenuOk(Exit)
     ELSE IF /\ n >= 4
             /\ SubSeq(parts, 1, 3)
                  = <<pattern.toggle, pattern.widget, pattern.config>>
             /\ parts[4] \in {pattern.true, pattern.false}
     THEN MenuOk(ToggleWidgetConfig(parts[4] = pattern.true,
                                    path_join(SubSeq(parts, 5, n))))
     ELSE IF /\ n >= 5
             /\ SubSeq(parts, 1, 4)
                  = <<pattern.toggle, pattern.startup, pattern.widget,
                      pattern.config>>
             /\ parts[5] \in {pattern.true, pattern.false}
     THEN MenuOk(ToggleStartupWidgetConfig(parts[5] = pattern.true,
                                           path_join(SubSeq(parts, 6, n))))
     ELSE MenuErr

\* create_tray_menu and create_config_menu: the events of the items of the
\* menu, for the widget config at menu_path.
MenuItems ==
  {ShowConfigFolder, ReloadConfigs, Exit,
   ToggleWidgetConfig(~menu_enabled, menu_path),
   ToggleStartupWidgetConfig(~menu_startup, menu_path)}

\* The MenuId of each item: the to_string of its event.
MenuIds == {MenuEvent_to_string(e) : e \in MenuItems}

\* Ids of menu events that are not ids of items of the tray menu: the
\* config path alone, and the ids of the items with a character dropped
\* or added.
OtherIds ==
  {menu_path}
    \cup {SubSeq(m, 1, Len(m) - 1) : m \in MenuIds}
    \cup {SubSeq(m, 2, Len(m)) : m \in MenuIds}
    \cup {m \o <<c>> : m \in MenuIds, c \in {"_", "a"}}
    \cup {<<"_">> \o m : m \in MenuIds}

NoId == <<"none">>

NoAction == [id |-> NoId, event |-> [kind |-> "None"]]

\* Before SysTray::new.
TrayOff ==
  /\ menu_path = <<>>
  /\ menu_enabled = FALSE
  /\ menu_startup = FALSE
  /\ tpc = "off"
  /\ tId = NoId
  /\ tEvent = MenuErr
  /\ handled = NoAction

\* SysTray::new for the widget config at path.
TrayNew(path, is_enabled, is_launched_on_startup) ==
  /\ menu_path = path
  /\ menu_enabled = is_enabled
  /\ menu_startup = is_launched_on_startup
  /\ tpc = "idle"
  /\ tId = NoId
  /\ tEvent = MenuErr
  /\ handled = NoAction

\* SysTray::refresh: the menu is made again from the widget states and the
\* startup configs of that time.
refresh ==
  /\ tpc # "off"
  /\ \E is_enabled \in BOOLEAN : menu_enabled' = is_enabled
  /\ \E is_launched_on_startup \in BOOLEAN :
       menu_startup' = is_launched_on_startup
  /\ UNCHANGED <<menu_path, tpc, tId, tEvent, handled, mgrVars, loopVars,
                 ivVars, weatherVars, ipVars, startVars, inputVars, winVars>>

\* The closure of on_menu_event is called with an event of id: it spawns
\* the task of the event.
on_menu_event(id) ==
  /\ tpc = "idle"
  /\ tpc' = "spawned"
  /\ tId' = id
  /\ UNCHANGED <<menu_path, menu_enabled, menu_startup, tEvent, handled,
                 mgrVars, loopVars, ivVars, weatherVars, ipVars, startVars,
                 inputVars, winVars>>

\* The task parses the id; only an Ok event goes on to the handler.
task_from_str ==
  /\ tpc = "spawned"
  /\ tEvent' = MenuEvent_from_str(tId)
  /\ tpc' = IF tEvent'.kind = "Ok" THEN "handle" ELSE "idle"
  /\ UNCHANGED <<menu_path, menu_enabled, menu_startup, tId, handled,
                 mgrVars, loopVars, ivVars, weatherVars, ipVars, startVars,
                 inputVars, winVars>>

\* SysTray::handle_menu_event; Exit ends the application.
handle_menu_event ==
  /\ tpc = "handle"
  /\ handled' = [id |-> tId, event |-> tEvent.val]
  /\ tpc' = IF tEvent.val.kind = "Exit" THEN "exit" ELSE "idle"
  /\ UNCHANGED <<menu_path, menu_enabled, menu_startup, tId, tEvent,
                 mgrVars, loopVars, ivVars, weatherVars, ipVars, startVars,
                 inputVars, winVars>>

\* WindowFactory::new, before any open call.
WindowInit ==
  /\ window_count = 0
  /\ window_states = {}
  /\ wins = [w \in WindowIds |-> "none"]
  /\ handlers = {}
  /\ hPending = {}
  /\ assigned = [w \in WindowIds |-> 0]
  /\ opened = [w \in WindowIds |-> 0]
  /\ closed_sent = [w \in WindowIds |-> 0]
  /\ opc = [t \in OpenCalls |-> "idle"]
  /\ oLeft = [t \in OpenCalls |-> 0]
  /\ oHtml = [t \in OpenCalls |-> TRUE]
  /\ oId = [t \in OpenCalls |-> "none"]
  /\ oMade = [t \in OpenCalls |-> 0]
  /\ oRes = [t \in OpenCalls |-> "none"]

FnInit ==
  /\ WeatherInit
  /\ IpOff
  /\ StartOff
  /\ InputInit
  /\ WindowInit
  /\ TrayOff

\* The manager and the select loops of the providers it runs.
Init ==
  /\ MgrInit
  /\ FnInit
  /\ allow = FALSE
  /\ IvInit("off", "off", "off")

Next ==
  \/ listen_provider
  \/ unlisten_provider
  \/ destroy_join
  \/ start_sync
  \/ start_async
  \/ AdvanceTime

Spec == Init /\ [][Next]_vars

\* Any step of loop i.
loop_step(i) == select_tick(i) \/ run_interval_done(i) \/ select_input(i)

\* Scheduling of the loops: the loops run and time passes (a loop that can
\* take a step does so before time passes), and a select that finds its
\* input branch ready again and again takes it at some point
\* (crossbeam::select! and tokio::select! pick among the ready branches at
\* random).
LoopFairness ==
  /\ WF_vars(AdvanceTime \/ \E i \in LoopIds : loop_step(i))
  /\ SF_vars(\E i \in LoopIds : select_input(i))

SpecFair == Init /\ [][Next]_vars /\ LoopFairness

\* One run_async loop and one Cpu loop, both started at time 0.
InitInterval ==
  /\ MgrInit
  /\ FnInit
  /\ allow \in BOOLEAN
  /\ IvInit("tick", "start", "off")

NextInterval ==
  \/ run_async_tick
  \/ run_async_emit
  \/ run_async_send
  \/ emit_result_rx_recv
  \/ on_start
  \/ refresh_and_emit_lock
  \/ refresh_and_emit
  \/ on_start_tick
  \/ on_stop
  \/ emit_output_rx_recv
  \/ Elapse

SpecInterval == InitInterval /\ [][NextInterval]_vars

\* The Cpu loop and the Memory provider on the System snapshot they share.
InitSnapshot ==
  /\ MgrInit
  /\ FnInit
  /\ allow = FALSE
  /\ IvInit("off", "start", "idle")

NextSnapshot ==
  \/ on_start
  \/ refresh_and_emit_lock
  \/ refresh_and_emit
  \/ on_start_tick
  \/ on_stop
  \/ emit_output_rx_recv
  \/ get_refreshed_variables_lock
  \/ get_refreshed_variables
  \/ Elapse

SpecSnapshot == InitSnapshot /\ [][NextSnapshot]_vars

\* The refreshes of the Weather provider, over every weather code up to
\* MaxCode by day and by night, with each coordinate configured or not.
InitWeather ==
  /\ TrayOff
  /\ MgrInit
  /\ IpOff
  /\ StartOff
  /\ InputInit
  /\ WindowInit
  /\ \E latitude \in {None, Some(ConfigLatitude)},
        longitude \in {None, Some(ConfigLongitude)} :
       WeatherNew(latitude, longitude)
  /\ allow = FALSE
  /\ IvInit("off", "off", "off")

NextWeather == weather_run_interval

SpecWeather == InitWeather /\ [][NextWeather]_vars

\* One refresh of the Ip provider, over every location string of Locs, with
\* and without a failure of the request, with no Output or an Output of an
\* earlier refresh held by the subscribers.
IpSeen ==
  {NoIpRes} \cup {query_ip(l) : l \in {LocExample, <<"1", ",", "-", "1">>}}

InitIp ==
  /\ TrayOff
  /\ MgrInit
  /\ WeatherInit
  /\ StartOff
  /\ InputInit
  /\ WindowInit
  /\ allow = FALSE
  /\ IvInit("off", "off", "off")
  /\ ipPc = "tick"
  /\ ipHttp \in BOOLEAN
  /\ ipLoc \in Locs
  /\ ipRes = NoIpRes
  /\ ipOut \in IpSeen

NextIp == ip_run_interval

SpecIp == InitIp /\ [][NextIp]_vars

\* A Disk loop or an Ip loop with one subscriber, and the holders of the
\* senders of its input channel: these send Stop or another message, or
\* drop the senders.
InputMsgs == {"Stop", "Other"}

InitInput ==
  /\ TrayOff
  /\ \E g \in Fingerprints :
       /\ registry = [f \in Fingerprints |-> IF f = g THEN 1 ELSE 0]
       /\ subs = [f \in Fingerprints |-> IF f = g THEN {"w1"} ELSE {}]
       /\ lfp = [i \in LoopIds |-> IF i = 1 THEN g ELSE "none"]
  /\ mgr = 0
  /\ ret = NoRet
  /\ nLoops = 1
  /\ lpc = [i \in LoopIds |-> IF i = 1 THEN "select" ELSE "none"]
  /\ input = [i \in LoopIds |-> <<>>]
  /\ timer = [i \in LoopIds |-> IntervalNew]
  /\ busy = [i \in LoopIds |-> 0]
  /\ emission = NoEmission
  /\ done = NoDone
  /\ sinceStop = 0
  /\ allow = FALSE
  /\ IvInit("off", "off", "off")
  /\ FnInit

NextInput ==
  \/ start_sync
  \/ start_async
  \/ AdvanceTime
  \/ \E i \in LoopIds : closed_input(i)
  \/ \E i \in LoopIds, m \in InputMsgs : send_input(i, m)
  \/ \E i \in LoopIds : drop_senders(i)

\* The loops run and time passes, as in LoopFairness.
SpecInput ==
  /\ InitInput
  /\ [][NextInput]_vars
  /\ WF_vars(AdvanceTime \/ \E i \in LoopIds : loop_step(i))

\* The open calls of the window factory, run at the same time, and the
\* windows they make, which are destroyed at any time.
InitWindow ==
  /\ TrayOff
  /\ MgrInit
  /\ WeatherInit
  /\ IpOff
  /\ StartOff
  /\ InputInit
  /\ allow = FALSE
  /\ IvInit("off", "off", "off")
  /\ WindowInit

NextWindow ==
  \/ \E t \in OpenCalls :
       open_call(t) \/ open_next(t) \/ open_build(t) \/ open_insert(t)
  \/ \E w \in WindowIds : window_destroyed(w) \/ on_window_event(w)

SpecWindow == InitWindow /\ [][NextWindow]_vars

\* One provider of each kind is started, ticks and is stopped.
InitStart ==
  /\ TrayOff
  /\ MgrInit
  /\ WeatherInit
  /\ IpOff
  /\ InputInit
  /\ WindowInit
  /\ allow = FALSE
  /\ IvInit("off", "off", "off")
  /\ spc = [k \in Kinds |-> "new"]
  /\ sTicks = [k \in Kinds |-> 0]

NextStart ==
  \E k \in Kinds : start_provider(k) \/ entry_tick(k) \/ entry_stop(k)

SpecStart == InitStart /\ [][NextStart]_vars

\* The tray menu of one widget config: menu events with ids of the menu and
\* with other ids, each parsed and handled by its task.
InitTray ==
  /\ MgrInit
  /\ WeatherInit
  /\ IpOff
  /\ StartOff
  /\ InputInit
  /\ WindowInit
  /\ allow = FALSE
  /\ IvInit("off", "off", "off")
  /\ \E path \in Paths, is_enabled \in BOOLEAN,
        is_launched_on_startup \in BOOLEAN :
       TrayNew(path, is_enabled, is_launched_on_startup)

NextTray ==
  \/ refresh
  \/ \E id \in MenuIds \cup OtherIds : on_menu_event(id)
  \/ task_from_str
  \/ handle_menu_event

SpecTray == InitTray /\ [][NextTray]_vars

\* ---- properties ---------------------------------------------------------
\* Whether a Stop message has been sent to loop i.
StopSentTo(i) ==
  lpc[i] = "stopped" \/ \E k \in 1..Len(input[i]) : input[i][k] = "Stop"

\* C1: whatever creates and destroys were made, no fingerprint has more
\* than one running loop; a create on a fingerprint that has an instance
\* spawns nothing.
C1_OneLoopPerFingerprint ==
  \A f \in Fingerprints : Cardinality(RunningLoops(f)) <= 1

\* C1 witness: a second subscriber was added to a fingerprint and it still
\* has its single loop.
C1_Witness ==
  \E f \in Fingerprints :
    /\ Cardinality(subs[f]) = 2
    /\ Cardinality(RunningLoops(f)) = 1
    /\ nLoops = 1

C4_NoLateEmission ==
  [][(mgr # 0 /\ emission'.loop = mgr) => sinceStop <= Period]_vars

C6_CreateExistingIsSilent ==
  [][/\ \A f \in Fingerprints :
          registry[f] # 0 => ~(nLoops' # nLoops /\ lfp'[nLoops'] = f)
     /\ (ret'.op = "create" /\ ret'.res = "Ok" /\ nLoops' = nLoops) =>
           /\ emission' = NoEmission
           /\ timer' = timer
           /\ busy' = busy
           /\ lpc' = lpc
           /\ input' = input
           /\ registry' = registry
           /\ \E f \in Fingerprints : \E s \in Subscribers :
                /\ registry[f] # 0
                /\ subs' = [subs EXCEPT ![f] = @ \cup {s}]]_vars

\* C6 witness: a create has just added a second subscriber to a fingerprint
\* whose loop has made its first refresh and waits for its timer.
C6_Witness ==
  /\ ret = [op |-> "create", res |-> "Ok"]
  /\ nLoops = 1
  /\ Cardinality(subs[lfp[1]]) = 2
  /\ lpc[1] = "select"
  /\ timer[1] > 0

\* C7: no subscriber is registered on a handle whose Stop has been sent.
C7_NoSubscriberOnStoppedHandle ==
  \A f \in Fingerprints :
    (registry[f] # 0 /\ StopSentTo(registry[f])) => subs[f] = {}

\* C7 witness: a destroy has sent Stop and awaits a loop that is still in a
\* refresh, the window in which a create could arrive.
C7_Witness ==
  /\ mgr # 0
  /\ lpc[mgr] = "refresh"
  /\ StopSentTo(mgr)
  /\ registry[lfp[mgr]] = mgr

C9_NoDuplicateEmissions ==
  [][~allow =>
       /\ sent' # sent => sent'.val # sent.val
       /\ (rpc = "run" /\ rpc' # "run" /\ prevRes' = sent.val) =>
            (rpc' = "tick" /\ sent' = sent)]_vars

\* C9 witness: with de-duplication, two ticks gave the same result and only
\* the first of them was sent.
C9_Witness ==
  /\ ~allow
  /\ suppressed
  /\ prevRes = sent.val
  /\ sent.seq = 1

\* C10: a loop that is stopped stays stopped: it takes no tick, starts no
\* refresh and makes no emission in any later step.
C10_StoppedIsTerminal ==
  [][\A i \in LoopIds :
       lpc[i] = "stopped" =>
         /\ lpc'[i] = "stopped"
         /\ timer'[i] = timer[i]
         /\ busy'[i] = busy[i]
         /\ emission'.loop # i]_vars

\* C10 witness: a loop is stopped and its handle is gone while another
\* loop has just emitted and waits for its timer.
C10_Witness ==
  \E i \in LoopIds : \E j \in LoopIds :
    /\ lpc[i] = "stopped"
    /\ registry[lfp[i]] # i
    /\ emission.loop = j
    /\ lpc[j] = "select"
    /\ timer[j] > 0

\* C11: a loop to which a Stop was sent reaches Stopped, whatever the
\* duration of its refreshes, also when a tick is due at every select: a
\* Stop stays in the input until the loop takes it, and again and again
\* every loop a Stop was sent to is stopped.
C11_StopNotStarved ==
  []<>(\A i \in LoopIds : StopSentTo(i) => lpc[i] = "stopped")

\* C11 witness: a loop has stopped more than one period after its Stop was
\* sent: ticks were due and taken at the selects in between.
C11_Witness ==
  /\ mgr # 0
  /\ lpc[mgr] = "stopped"
  /\ sinceStop = Period + 1

\* C12: the Cpu loop is not terminated while it holds the lock of the
\* snapshot, between sysinfo.lock() and the end of its send.
C12_NoAbortInsideRefresh ==
  [][(cpc' = "aborted" /\ cpc # "aborted") => sysLock # "cpu"]_vars

\* A Stop takes effect at the select only: a loop in a refresh is not
\* stopped before run_interval has returned and its result was handed over.
StopOnlyAtSelect ==
  [][\A i \in LoopIds : lpc[i] = "refresh" => lpc'[i] # "stopped"]_vars

\* C13: a run_interval that returns an error leaves its loop running at
\* the select with its interval and its input as they were, so the next
\* tick is taken as after a successful refresh.
C13_RefreshErrorKeepsLoop ==
  [][done'.res = "Err" =>
       /\ lpc[done'.loop] = "refresh"
       /\ lpc'[done'.loop] = "select"
       /\ timer' = timer
       /\ input' = input
       /\ registry' = registry
       /\ subs' = subs]_vars

\* C13 witness: a run_interval has just returned an error, the loop is at
\* its select and its next tick is already due.
C13_Witness ==
  /\ done.res = "Err"
  /\ lpc[done.loop] = "select"
  /\ tick_ready(done.loop)
  /\ input[done.loop] = <<>>

\* C17: every emission is forwarded to exactly the subscribers registered
\* for the fingerprint at that moment; it reaches each of them but those
\* whose delivery fails, and the loop is at its select afterwards.
C17_FanOutToAll ==
  [][emission'.loop # 0 =>
       /\ emission'.to = subs[lfp[emission'.loop]]
       /\ emission'.failed \subseteq emission'.to
       /\ emission'.got = emission'.to \ emission'.failed
       /\ lpc'[emission'.loop] = "select"
       /\ subs' = subs]_vars

\* C17 witness: an emission to two subscribers failed for one of them and
\* reached the other.
C17_Witness ==
  /\ emission.loop # 0
  /\ Cardinality(emission.to) = 2
  /\ Cardinality(emission.failed) = 1
  /\ Cardinality(emission.got) = 1
  /\ lpc[emission.loop] = "select"

\* C14: no error result is sent on emit_result_tx: a tick whose
\* run_interval fails sends nothing and the value sent last stays an output.
C14_RefreshErrorNotEmitted == sent.val # "Err"

\* C15: whenever a tick is taken, however late, the next deadline is
\* strictly ahead and on the schedule (a whole number of periods after the
\* deadline of the tick taken): one refresh runs for all the deadlines
\* that passed.
C15_SkipNotBurst ==
  [][(rpc = "tick" /\ rpc' = "run") =>
       /\ rLate' = 0 - rTimer
       /\ rTimer' \in 1..Period
       /\ (rTimer' + rLate') % Period = 0]_vars

\* C15 witness: a run_interval has just started on a tick taken a period
\* or more after its deadline (two deadlines had passed), and the next
\* tick lies ahead.
C15_Witness ==
  /\ rpc = "run"
  /\ rBusy = rDur
  /\ rLate >= Period
  /\ rTimer >= 1

\* C16: values leave the channel in the order they were sent, without a
\* gap, and a run_interval starts only when the result of the one before
\* it has been handed to the channel (or was a duplicate).
C16_EmissionsInOrder ==
  [][/\ Len(chan') < Len(chan) => seen' = (seen + 1) % SeqMod
     /\ (rpc' = "run" /\ rpc # "run") =>
          /\ rpc = "tick"
          /\ sent.seq = IF chan = <<>> THEN seen ELSE chan[Len(chan)]]_vars

\* C16 witness: the first value was received, the second and the third
\* wait in the channel and the next run_interval is in flight.
C16_Witness ==
  /\ seen = 1
  /\ Len(chan) = 2
  /\ rpc = "run"

\* C18: a provider that awaits its timer, the lock or the hand-over of an
\* output does not hold the lock of the snapshot.
C18_NoLockAcrossAwait ==
  /\ cpc \in {"lock", "send", "tick"} => sysLock # "cpu"
  /\ mpc = "idle" => sysLock # "mem"

\* C19: once the Memory provider has read the memory fields, the snapshot
\* stores the values it read, whatever the Cpu provider did since.
C19_CpuKeepsMemoryFields ==
  memRead # NoOutput => sysMem = memRead

\* C19 witness: the Memory provider has read the memory fields and the
\* Cpu provider, which has sent an output before, holds the lock again.
C19_Witness ==
  /\ memRead # NoOutput
  /\ sysLock = "cpu"
  /\ cpc = "send"
  /\ cpuEmits >= 1

\* The band of a weather code, as the documentation of the status states
\* it.
WeatherBand(code) ==
  IF code = 0 THEN "Clear"
  ELSE IF code <= 50 THEN "Cloudy"
  ELSE IF code <= 62 THEN "LightRain"
  ELSE IF code \in (63..70) \cup (80..84) THEN "HeavyRain"
  ELSE IF code \in (71..79) \cup (85..94) THEN "Snow"
  ELSE "Thunder"

\* C20: the status of every output is the band of its weather code in the
\* Day variant by day and in the Night variant by night; in particular
\* 0 by day is ClearDay, 0 by night ClearNight, 65 by day HeavyRainDay and
\* 96 by night ThunderNight.
C20_WeatherBanding ==
  wStatus # "none" =>
    /\ wStatus = WeatherBand(wCode) \o (IF wDay THEN "Day" ELSE "Night")
    /\ (wCode = 0 /\ wDay) => wStatus = "ClearDay"
    /\ (wCode = 0 /\ ~wDay) => wStatus = "ClearNight"
    /\ (wCode = 65 /\ wDay) => wStatus = "HeavyRainDay"
    /\ (wCode = 96 /\ ~wDay) => wStatus = "ThunderNight"

\* C20 witness: a response with code 96 by night gave ThunderNight.
C20_Witness ==
  /\ wCode = 96
  /\ ~wDay
  /\ wStatus = "ThunderNight"

\* The first and the second comma-separated part of a location string: the
\* text before its first comma, and the text between its first comma and
\* its second one (or its end); a string without a comma has no second.
Commas(loc) == {k \in 1..Len(loc) : loc[k] = ","}

CommaAt(loc, n) ==
  IF Cardinality(Commas(loc)) < n THEN Len(loc) + 1
  ELSE CHOOSE k \in Commas(loc) :
         Cardinality({j \in Commas(loc) : j < k}) = n - 1

FirstPart(loc) == SubSeq(loc, 1, CommaAt(loc, 1) - 1)

SecondPart(loc) == SubSeq(loc, CommaAt(loc, 1) + 1, CommaAt(loc, 2) - 1)

\* C21: a refresh of the Ip provider whose request succeeded returns Ok
\* exactly when the location string has two comma-separated parts and the
\* first two both parse as numbers; the latitude is then the number of the
\* first and the longitude that of the second ("48.8566,2.3522" gives
\* 48.8566 and 2.3522).  Otherwise it returns an error (it does not panic)
\* and the Output held before stays.
C21_IpLocParsing ==
  [][(ipPc = "tick" /\ ipPc' = "done") =>
       /\ ipRes'.kind \in {"Ok", "Err"}
       /\ ipHttp =>
            (ipRes'.kind = "Ok" <=>
               /\ Commas(ipLoc) # {}
               /\ parse_f32(FirstPart(ipLoc)).some
               /\ parse_f32(SecondPart(ipLoc)).some)
       /\ ipRes'.kind = "Ok" =>
            /\ ipRes'.approx_latitude = parse_f32(FirstPart(ipLoc)).val
            /\ ipRes'.approx_longitude = parse_f32(SecondPart(ipLoc)).val
            /\ ipOut' = ipRes'
       /\ (ipHttp /\ ipLoc = LocExample) =>
            ipRes' = IpOk(488566 * 10^(Scale - 4), 23522 * 10^(Scale - 4))
       /\ ipRes'.kind = "Err" => ipOut' = ipOut]_vars

\* "invalid" came back while the subscribers held the Output of
\* "48.8566,2.3522": the refresh returned an error and the Output stayed.
C21_Witness ==
  /\ ipPc = "done"
  /\ ipHttp
  /\ ipLoc = LocInvalid
  /\ ipRes.kind = "Err"
  /\ ipOut = IpOk(488566 * 10^(Scale - 4), 23522 * 10^(Scale - 4))

\* C22: a refresh of the Weather provider calls the IP lookup exactly when
\* the configuration does not give both coordinates.  With both given no
\* lookup is made and the request carries the configured pair; otherwise
\* one lookup is made in that refresh, in each refresh anew, and both
\* coordinates of the request are those of its result.
C22_LookupIffNotConfigured ==
  wRes # "none" =>
    /\ wLookups = 0 <=> (wCfgLat.some /\ wCfgLon.some)
    /\ wLookups \in {0, 1}
    /\ wLookups = 0 =>
         /\ wIp = NoIpRes
         /\ wLat = wCfgLat.val
         /\ wLon = wCfgLon.val
    /\ (wLookups = 1 /\ wIp.kind = "Ok") =>
         /\ wLat = wIp.approx_latitude
         /\ wLon = wIp.approx_longitude
    /\ wLookups = 1 => wIp \in IpResults

\* Only the latitude is configured: the refresh made a lookup and the
\* request carries both coordinates of its result, not the configured one.
C22_Witness ==
  /\ wRes = "Ok"
  /\ wCfgLat.some
  /\ ~wCfgLon.some
  /\ wLookups = 1
  /\ wLat = wIp.approx_latitude
  /\ wLat # wCfgLat.val

\* The Day variants and the Night variants of WeatherStatus.
DayVariants ==
  {"ClearDay", "CloudyDay", "LightRainDay", "HeavyRainDay", "SnowDay",
   "ThunderDay"}

NightVariants ==
  {"ClearNight", "CloudyNight", "LightRainNight", "HeavyRainNight",
   "SnowNight", "ThunderNight"}

\* C27: every WeatherOutput is consistent: its status is a Day variant
\* exactly when its is_daytime is true, and a Night variant otherwise,
\* for every weather code.
C27_StatusMatchesDaytime ==
  wStatus # "none" =>
    /\ wStatus \in DayVariants \cup NightVariants
    /\ wStatus \in DayVariants <=> wDay

\* A snow code at night: the output is not daytime and its status is the
\* Night variant.
C27_Witness ==
  /\ wRes = "Ok"
  /\ wCode = 75
  /\ ~wDay
  /\ wStatus = "SnowNight"

\* C23: the tag of a provider kind is fixed, and the entry point it selects
\* is one the kind implements: no started provider is in the unimplemented
\* default entry point.
C23_EntryPointImplemented ==
  \A k \in Kinds :
    spc[k] \notin {"new", "stopped"} =>
      /\ spc[k] \in implemented(k)
      /\ spc[k] # "todo"

\* C24: when the loop of run_async is back at its timer after a tick, the
\* recorded last result is the result of the refresh of that tick, whether
\* that result was sent or held back as a duplicate.
C24_LastResultIsLatest ==
  [][(rpc # "tick" /\ rpc' = "tick") =>
       /\ last_interval_res' = prevRes'
       /\ suppressed' => sent' = sent
       /\ ~suppressed' => sent'.val = prevRes']_vars

\* With de-duplication, the second tick gave the result of the first: it
\* was held back, and the recorded last result is that result.
C24_Witness ==
  /\ ~allow
  /\ rpc = "tick"
  /\ suppressed
  /\ prevRes \in Outputs
  /\ last_interval_res = prevRes

\* C25: only Stop ends a loop.  A loop leaves Running only by taking a Stop
\* from its input channel; another message or the closed channel leaves it
\* at its select, and unless a Stop was sent to it, it goes on completing
\* refreshes, sync and async loops alike.
C25_OnlyStopEndsLoop ==
  /\ [][\A i \in LoopIds :
          (Running(i) /\ lpc'[i] = "stopped") =>
            /\ input[i] # <<>>
            /\ Head(input[i]) = "Stop"
            /\ input'[i] = Tail(input[i])]_vars
  /\ \A i \in LoopIds :
       []<>(lpc[i] = "none" \/ StopSentTo(i) \/ done.loop = i)

\* The senders of the Ip loop were dropped after a message other than Stop
\* was sent; the loop took that message, found the channel closed, and a
\* refresh of it returns.
C25_Witness ==
  /\ lfp[1] = "ip"
  /\ closed[1] = "observed"
  /\ nSent[1] = 1
  /\ input[1] = <<>>
  /\ done.loop = 1
  /\ Running(1)

\* C26: the Memory provider, waiting for the lock of the snapshot, gets it
\* without the help of whoever drains the output channel of the Cpu
\* provider: the holder of the lock never waits for room in that channel.
C26_LockNotHeldForReceiver ==
  (mpc = "idle" /\ sysLock = "cpu") => ~(cpc = "send" /\ cChan = ChanCap)

\* C28: window ids are unique: no id is taken for two windows, under any
\* interleaving of the open calls, whether the window of an id was built,
\* is destroyed or its open failed; and the ids are the digits of the
\* counts, one per count.
C28_WindowIdsUnique ==
  /\ \A w \in WindowIds : assigned[w] <= 1
  /\ \A t, u \in OpenCalls :
       (t # u /\ oId[t] # "none" /\ oId[u] # "none") => oId[t] # oId[u]
  /\ {w \in WindowIds : assigned[w] = 1}
       = {to_string(n) : n \in 1..window_count}

\* Two open calls ran at the same time: the open of id 1 failed for its
\* missing HTML file, the window of id 2 was built and destroyed, and id 3
\* is taken for the next window.
C28_Witness ==
  /\ oId["o1"] = "1"
  /\ oRes["o1"] = "Err"
  /\ wins["2"] = "destroyed"
  /\ oId["o2"] = "3"
  /\ opc["o2"] = "build"
  /\ assigned["3"] = 1

\* The open calls that are between the build of a window and the end of
\* the iteration that opens it.
Opening(w) == \E t \in OpenCalls : opc[t] = "lock" /\ oId[t] = w

\* C29: the map of window states tracks the open windows.  Once the open
\* of a window is through, the window, while it is open, has its state in
\* the map and its open event was broadcast once; once it is destroyed and
\* the task of its Destroyed event has run, its state is not in the map
\* and its close event was broadcast exactly once; no close event is
\* broadcast for an id that is not in the map.
C29_MapTracksWindows ==
  \A w \in WindowIds :
    /\ (wins[w] = "open" /\ ~Opening(w)) =>
         (w \in window_states /\ opened[w] = 1)
    /\ (wins[w] = "destroyed" /\ ~Opening(w) /\ w \notin hPending) =>
         (w \notin window_states /\ closed_sent[w] = opened[w])
    /\ closed_sent[w] <= 1
    /\ closed_sent[w] <= opened[w]

\* C30: an open call whose HTML file does not exist returns an error, and
\* it has built no window, inserted no state and broadcast no open event.
C30_MissingHtmlIsError ==
  \A t \in OpenCalls :
    (opc[t] = "done" /\ ~oHtml[t]) =>
      /\ oRes[t] = "Err"
      /\ oMade[t] = 0

\* The menu events of the widget config at path, whichever way it is
\* toggled.
PathEvents(path) ==
  {ShowConfigFolder, ReloadConfigs, Exit}
    \cup {ToggleWidgetConfig(b, path) : b \in BOOLEAN}
    \cup {ToggleStartupWidgetConfig(b, path) : b \in BOOLEAN}

\* Whether id has the form of the id of a menu event: one of the three
\* fixed ids, or a toggle literal with "true" or "false" and then nothing
\* or '_' and a path.
EventForm(id) ==
  \/ id \in {literal.show_config_folder, literal.reload_configs,
             literal.exit}
  \/ \E p \in {literal.toggle_widget_config,
               literal.toggle_startup_widget_config}, b \in BOOLEAN :
       LET prefix == p \o fmt_bool(b)
       IN /\ Len(id) >= Len(prefix)
          /\ SubSeq(id, 1, Len(prefix)) = prefix
          /\ Len(id) > Len(prefix) => id[Len(prefix) + 1] = "_"

TypeOK ==
  /\ nLoops \in 0..MaxLoops
  /\ \A i \in LoopIds : lpc[i] \in {"none", "select", "refresh", "stopped"}
  /\ \A i \in LoopIds : timer[i] \in (1 - Period)..Period
  /\ rTimer \in (1 - MaxRun)..Period
  /\ rLate \in 0..MaxRun
  /\ cTimer \in 0..Period
  /\ Len(chan) <= ChanCap
  /\ sysLock \in {"none", "cpu", "mem"}
  /\ age \in 0..Period

====
